---- MODULE Spec2Model ----
(***************************************************************************)
(* Model of the log parsing engine of the log analysis system:             *)
(*   src/python/log_parser.py  (LogParser)                                 *)
(*   src/models.py             (LogEntry, HttpMethod)                      *)
(*                                                                         *)
(* Text is modelled as sequences of one-character strings so that the      *)
(* regular expressions, int() conversions and strptime's %z directive are  *)
(* computed, not assumed.                                                  *)
(***************************************************************************)
EXTENDS Integers, Sequences, FiniteSets, TLC

VARIABLES
    strict_mode,    \* LogParser.strict_mode
    parsed_count,   \* LogParser.parsed_count
    error_count,    \* LogParser.error_count
    errors,         \* LogParser.errors
    exists,         \* per generator: does the path of its call exist
    file,           \* per generator: the lines of its source, in file order
    pos,            \* per generator: lines read so far (enumerate's line_num)
    pc,             \* per generator: position of the generator's frame
    received,       \* per generator: entries handed to the consumer
    raised,         \* per generator: exception that left the generator
    running,        \* generator whose next() is executing, 0 = consumer
    interleaved,    \* history: another call on the instance ran meanwhile
    ts_in,          \* argument of a direct _parse_timestamp call
    ts_out,         \* its outcome
    line_in,        \* argument of a direct parse_line call
    line_out,       \* its outcome
    entry_in,       \* field values given to the LogEntry constructor
    entry_out,      \* its outcome
    log_entries,    \* the entry list given to LogAnalytics / TrendAnalyzer
    an_out,         \* outcome of the LogAnalytics method called
    sorted_entries, \* TrendAnalyzer.log_entries
    window_minutes, \* argument of analyze_traffic_trends
    current_time,   \* analyze_traffic_trends: current_time
    trends,         \* analyze_traffic_trends: trends
    tpc,            \* position of the analyze_traffic_trends call
    stats           \* the mapping last returned by get_parsing_stats

vars == <<strict_mode, parsed_count, error_count, errors, exists, file, pos,
          pc, received, raised, running, interleaved,
          ts_in, ts_out, line_in, line_out, entry_in, entry_out,
          log_entries, an_out,
          sorted_entries, window_minutes, current_time, trends, tpc, stats>>

parserVars == <<strict_mode, parsed_count, error_count, errors>>
streamVars == <<exists, pos, pc, received, raised, running, interleaved>>
anVars     == <<entry_in, entry_out, log_entries, an_out>>
trendVars  == <<sorted_entries, window_minutes, current_time, trends, tpc>>
fnVars     == <<ts_in, ts_out, line_in, line_out, anVars, trendVars, stats>>

-----------------------------------------------------------------------------
(* Characters and integer conversion                                       *)

DigitSeq == <<"0", "1", "2", "3", "4", "5", "6", "7", "8", "9">>

Digits == {DigitSeq[i] : i \in 1..10}

DigitVal(c) == (CHOOSE i \in 1..10 : DigitSeq[i] = c) - 1

\* regex \d+
IsDigits(tok) == Len(tok) >= 1 /\ \A i \in 1..Len(tok) : tok[i] \in Digits

RECURSIVE ToInt(_)
\* int(tok) for a token of decimal digits
ToInt(tok) ==
    IF tok = <<>> THEN 0
    ELSE 10 * ToInt(SubSeq(tok, 1, Len(tok) - 1)) + DigitVal(tok[Len(tok)])

\* Optional[...] values: <<>> is None, <<v>> is v
None == <<>>

Some(v) == <<v>>

\* membership of a word in a message, as `word in message.lower()`
Mentions(msg, word) == \E i \in 1..Len(msg) : msg[i] = word

-----------------------------------------------------------------------------
(* Timestamps.  A timestamp string is the 20 characters                    *)
(* 'dd/Mon/YYYY:HH:MM:SS' (dt_ok: whether they denote a real date-time),   *)
(* followed, when tz is not empty, by one space and the token tz.          *)

MIN_OFFSET == -43200

MAX_OFFSET == 50400

DateTimeLen == 20

TimestampLen(ts) == DateTimeLen + (IF ts.tz = <<>> THEN 0 ELSE 1 + Len(ts.tz))

\* strptime's pattern for %z: [+-]\d\d:?[0-5]\d(:?[0-5]\d)?|Z
MatchesZ(tz) ==
    LET sign(i)  == i <= Len(tz) /\ tz[i] \in {"+", "-"}
        dig(i)   == i <= Len(tz) /\ tz[i] \in Digits
        lowd(i)  == i <= Len(tz) /\ tz[i] \in {"0", "1", "2", "3", "4", "5"}
        colon(i) == i <= Len(tz) /\ tz[i] = ":"
        \* minutes start at m, optional seconds follow
        rest(m)  == /\ lowd(m) /\ dig(m + 1)
                    /\ \/ Len(tz) = m + 1
                       \/ Len(tz) = m + 3 /\ lowd(m + 2) /\ dig(m + 3)
                       \/ Len(tz) = m + 4 /\ colon(m + 2)
                                          /\ lowd(m + 3) /\ dig(m + 4)
    IN  \/ tz = <<"Z">>
        \/ /\ sign(1) /\ dig(2) /\ dig(3)
           /\ \/ rest(4)
              \/ colon(4) /\ rest(5)

\* the offset in seconds that strptime computes from a token matching %z
GmtOff(tz) ==
    IF tz = <<"Z">> THEN 0
    ELSE LET m    == IF tz[4] = ":" THEN 5 ELSE 4
             s    == IF Len(tz) = m + 3 THEN m + 2
                     ELSE IF Len(tz) = m + 4 THEN m + 3 ELSE 0
             hh   == ToInt(SubSeq(tz, 2, 3))
             mm   == ToInt(SubSeq(tz, m, m + 1))
             ss   == IF s = 0 THEN 0 ELSE ToInt(SubSeq(tz, s, s + 1))
             secs == hh * 3600 + mm * 60 + ss
         IN  IF tz[1] = "-" THEN 0 - secs ELSE secs

DayLimit == 86400

\* timezone(timedelta(seconds=gmtoff)), called by strptime for %z
MakeTimezone(off) ==
    IF off <= 0 - DayLimit \/ off >= DayLimit
    THEN [ok |-> FALSE, err |-> "offset", off |-> 0]
    ELSE [ok |-> TRUE, err |-> "", off |-> off]

\* datetime.strptime(timestamp_str, '%d/%b/%Y:%H:%M:%S %z')
\* err: "format" = ValueError 'does not match format' / invalid date,
\*      "offset" = ValueError 'offset must be a timedelta strictly between ...'
Strptime_z(ts) ==
    IF ~ts.dt_ok \/ ts.tz = <<>> \/ ~MatchesZ(ts.tz)
    THEN [ok |-> FALSE, err |-> "format", off |-> 0]
    ELSE MakeTimezone(GmtOff(ts.tz))

MsgTzOffset == <<"invalid", "timezone", "offset", "in", "timestamp">>

MsgTzFormat == <<"invalid", "timezone", "format", "in", "timestamp">>

MsgTsFormat == <<"invalid", "timestamp", "format">>

TsAware(off) == [ok |-> TRUE, aware |-> TRUE, offset |-> off, msg |-> <<>>]

TsNaive == [ok |-> TRUE, aware |-> FALSE, offset |-> 0, msg |-> <<>>]

TsError(m) == [ok |-> FALSE, aware |-> FALSE, offset |-> 0, msg |-> m]

\* AfterStrptime with a seeded fault: the range of the offset is not checked
AfterStrptimeUnchecked(ts, st) ==
    IF st.ok THEN TsAware(st.off)
    ELSE IF st.err = "offset" THEN TsError(MsgTzOffset)
    ELSE IF TimestampLen(ts) >= 22 /\ ts.tz[1] \in {"+", "-"}
    THEN TsError(MsgTzFormat)
    ELSE IF ts.dt_ok THEN TsNaive
    ELSE TsError(MsgTsFormat)

\* AfterStrptime with a seeded fault: no fallback to a naive date-time
AfterStrptimeNoFallback(ts, st) ==
    IF st.ok
    THEN IF st.off < MIN_OFFSET \/ st.off > MAX_OFFSET
         THEN TsError(MsgTzOffset)
         ELSE TsAware(st.off)
    ELSE IF st.err = "offset"
    THEN TsError(MsgTzOffset)
    ELSE IF TimestampLen(ts) >= 22 /\ ts.tz[1] \in {"+", "-"}
    THEN TsError(MsgTzFormat)
    ELSE TsError(MsgTsFormat)

\* LogParser._parse_timestamp, lines 250-309, st being the outcome of the
\* strptime call of line 248; ok = FALSE is a raised ParseError
AfterStrptime(ts, st) ==
    IF st.ok
    THEN IF st.off < MIN_OFFSET \/ st.off > MAX_OFFSET
         THEN TsError(MsgTzOffset)
         ELSE TsAware(st.off)
    ELSE IF st.err = "offset"
    THEN TsError(MsgTzOffset)
    ELSE IF /\ TimestampLen(ts) > 20 /\ TimestampLen(ts) >= 22
            /\ ts.tz[1] \in {"+", "-"}
    THEN TsError(MsgTzFormat)
    ELSE IF ts.dt_ok
    THEN TsNaive
    ELSE TsError(MsgTsFormat)

\* LogParser._parse_timestamp
ParseTimestamp(ts) == AfterStrptime(ts, Strptime_z(ts))

-----------------------------------------------------------------------------
(* Lines.  A raw line is lead spaces followed by a body:                   *)
(*   kind "empty"   nothing (the line is blank),                           *)
(*   kind "comment" text starting with '#',                                *)
(*   kind "text"    free text that has not the shape of an access record,  *)
(*   kind "fields"  IP - - [ts] "METHOD PATH PROTOCOL" STATUS SIZE         *)
(*                  followed by tail = 0, 2 ("REFERRER" "USER_AGENT") or   *)
(*                  3 (the two and RT) further fields.                     *)

\* Strip with a seeded fault: the line is used as read
StripNothing(l) == l

\* str.strip()
Strip(l) == [l EXCEPT !.lead = 0]

\* `not line`
IsEmptyStr(l) == l.lead = 0 /\ l.kind = "empty"

\* line.startswith('#')
StartsWithHash(l) == l.lead = 0 /\ l.kind = "comment"

\* the prefix all three patterns share:
\* ^(\S+) \S+ \S+ \[([^\]]+)\] "(\S+) (\S+) (\S+)" (\d+) (\d+|-)
MatchesCommonPrefix(l) ==
    /\ l.lead = 0
    /\ l.kind = "fields"
    /\ IsDigits(l.status)
    /\ IsDigits(l.size) \/ l.size = <<"-">>

\* EXTENDED_PATTERN: ... "([^"]*)" "([^"]*)" (\d+)$
MatchesExtended(l) == MatchesCommonPrefix(l) /\ l.tail = 3 /\ IsDigits(l.rt)

\* COMBINED_PATTERN: ... "([^"]*)" "([^"]*)"$
MatchesCombined(l) == MatchesCommonPrefix(l) /\ l.tail = 2

\* CLF_PATTERN: ... (\d+) (\d+|-)$
MatchesCLF(l) == MatchesCommonPrefix(l) /\ l.tail = 0

\* the values of enum HttpMethod
HttpMethod == {"GET", "POST", "PUT", "DELETE", "PATCH", "HEAD", "OPTIONS"}

\* LogParser._parse_size (its argument matched \d+|- already)
ParseSize(size) == IF size = <<"-">> THEN 0 ELSE ToInt(size)

\* LogParser._parse_optional_field
ParseOptionalField(field) ==
    IF field = "-" \/ field = "" THEN None ELSE Some(field)

\* float(match.group(10)) / 1000.0, kept as the exact quotient
ResponseTime(rt) == [num |-> ToInt(rt), den |-> 1000]

\* what '$' leaves to be matched: '$' matches at the end of the string and
\* also just before a newline that ends the string
BeforeDollar(part) ==
    IF Len(part) >= 1 /\ part[Len(part)] = "\n"
    THEN SubSeq(part, 1, Len(part) - 1)
    ELSE part

\* re.match(r'^\d{1,3}\.\d{1,3}\.\d{1,3}\.\d{1,3}$', ip); ip is the sequence
\* of the dot-separated parts of the address
IpFormatOk(ip) ==
    /\ Len(ip) = 4
    /\ \A i \in 1..3 : IsDigits(ip[i]) /\ Len(ip[i]) <= 3
    /\ IsDigits(BeforeDollar(ip[4])) /\ Len(BeforeDollar(ip[4])) <= 3

MinStatus == 100

MaxStatus == 599

MsgUnableToParse == <<"unable", "to", "parse", "log", "line">>

MsgNotAMethod == <<"is", "not", "a", "valid", "httpmethod">>

MsgIpRequired == <<"ip", "address", "is", "required">>

MsgIpFormat == <<"invalid", "ip", "address", "format">>

MsgStatus == <<"invalid", "http", "status", "code">>

MsgNegativeSize == <<"response", "size", "cannot", "be", "negative">>

\* LogEntry._validate: the message of the ValueError raised, <<>> if none
Validate(e) ==
    IF e.ip_address = <<>> THEN MsgIpRequired
    ELSE IF ~IpFormatOk(e.ip_address) THEN MsgIpFormat
    ELSE IF e.status_code < MinStatus \/ e.status_code > MaxStatus
    THEN MsgStatus
    ELSE IF e.response_size < 0 THEN MsgNegativeSize
    ELSE <<>>

Returned(e) == [kind |-> "entry", entry |-> <<e>>, msg |-> <<>>]

Raised(exc, m) == [kind |-> exc, entry |-> <<>>, msg |-> m]

\* LogEntry(...): __post_init__ validates, the object exists only if it passes
NewLogEntry(e) ==
    IF Validate(e) # <<>> THEN Raised("ValueError", Validate(e))
    ELSE Returned(e)

\* the rest of _create_entry_from_match / _create_entry_from_clf_match once
\* _parse_timestamp has returned t or raised
EntryWith(l, t, with_optional, include_response_time) ==
    IF ~t.ok THEN Raised("ParseError", t.msg)
    ELSE IF l.method \notin HttpMethod THEN Raised("ValueError", MsgNotAMethod)
    ELSE NewLogEntry(
        [ip_address    |-> l.ip,
         timestamp     |-> [local  |-> l.ts.local,
                            aware  |-> t.aware,
                            offset |-> t.offset],
         method        |-> l.method,
         path          |-> l.path,
         protocol      |-> l.protocol,
         status_code   |-> ToInt(l.status),
         response_size |-> ParseSize(l.size),
         referrer      |-> IF with_optional
                           THEN ParseOptionalField(l.referrer) ELSE None,
         user_agent    |-> IF with_optional
                           THEN ParseOptionalField(l.user_agent) ELSE None,
         response_time |-> IF include_response_time
                           THEN Some(ResponseTime(l.rt)) ELSE None])

\* LogParser._create_entry_from_match and _create_entry_from_clf_match:
\* the fields are converted in the order of the code, the first failure
\* is the exception that leaves the call
CreateEntry(l, with_optional, include_response_time) ==
    EntryWith(l, ParseTimestamp(l.ts), with_optional, include_response_time)

\* LogParser.parse_line
ParseLine(l) ==
    IF MatchesExtended(l) THEN CreateEntry(l, TRUE, TRUE)
    ELSE IF MatchesCombined(l) THEN CreateEntry(l, TRUE, FALSE)
    ELSE IF MatchesCLF(l) THEN CreateEntry(l, FALSE, FALSE)
    ELSE Raised("ParseError", MsgUnableToParse)

-----------------------------------------------------------------------------
(* The sample lines that sources are made of                               *)

Loopback == << <<"1", "2", "7">>, <<"0">>, <<"0">>, <<"1">> >>

Localhost == << <<"l", "o", "c", "a", "l", "h", "o", "s", "t">> >>

Utc == <<"+", "0", "0", "0", "0">>

\* 127.0.0.1 - - [10/Oct/2023:13:55:36 +0000] "GET /test1 HTTP/1.1" 200 100
ClfLine ==
    [lead |-> 0, kind |-> "fields", ip |-> Loopback,
     ts |-> [dt_ok |-> TRUE, local |-> 0, tz |-> Utc],
     method |-> "GET", path |-> "/test1", protocol |-> "HTTP/1.1",
     status |-> <<"2", "0", "0">>, size |-> <<"1", "0", "0">>,
     tail |-> 0, referrer |-> "", user_agent |-> "", rt |-> <<>>]

\* ... [10/Oct/2023:13:56:36 -0500] "POST /test2 HTTP/1.1" 404 - "-" "Mozilla/5.0"
CombinedLine ==
    [ClfLine EXCEPT !.ts = [dt_ok |-> TRUE, local |-> 60,
                            tz |-> <<"-", "0", "5", "0", "0">>],
                    !.method = "POST", !.path = "/test2",
                    !.status = <<"4", "0", "4">>, !.size = <<"-">>,
                    !.tail = 2, !.referrer = "-",
                    !.user_agent = "Mozilla/5.0"]

\* ... [10/Oct/2023:13:57:36] "PUT /test3 HTTP/1.1" 500 300
\*     "https://example.com" "Googlebot/2.1" 1500
ExtendedLine ==
    [ClfLine EXCEPT !.ts = [dt_ok |-> TRUE, local |-> 120, tz |-> <<>>],
                    !.method = "PUT", !.path = "/test3",
                    !.status = <<"5", "0", "0">>, !.size = <<"3", "0", "0">>,
                    !.tail = 3, !.referrer = "https://example.com",
                    !.user_agent = "Googlebot/2.1",
                    !.rt = <<"1", "5", "0", "0">>]

LineOf(name) ==
    CASE name = "clf"        -> ClfLine
      [] name = "combined"   -> CombinedLine
      [] name = "extended"   -> ExtendedLine
      [] name = "blank"      -> [ClfLine EXCEPT !.kind = "empty"]
      [] name = "comment"    -> [ClfLine EXCEPT !.kind = "comment", !.lead = 2]
      [] name = "garbage"    -> [ClfLine EXCEPT !.kind = "text"]
      [] name = "bad_ts"     -> [ClfLine EXCEPT !.ts.dt_ok = FALSE,
                                                !.path = "/bad_ts"]
      [] name = "bad_status" -> [ClfLine EXCEPT !.status = <<"9", "9", "9">>,
                                                !.path = "/bad_status"]
      [] name = "bad_method" -> [CombinedLine EXCEPT !.method = "FETCH",
                                                     !.path = "/bad_method"]
      [] name = "bad_ip"     -> [ClfLine EXCEPT !.ip = Localhost,
                                                !.path = "/bad_ip"]

LineNames == {"clf", "combined", "extended", "blank", "comment", "garbage",
              "bad_ts", "bad_status", "bad_method", "bad_ip"}

MaxLines == 3

MaxLongLines == 11

\* all sources of at most n lines over the names in S
FilesOver(S, n) == UNION {[1..k -> S] : k \in 0..n}

\* a burst of failing lines: n lines, all unparseable but the k-th (if any)
Burst(n, k) == [i \in 1..n |-> IF i = k THEN "clf" ELSE "garbage"]

BurstFiles ==
    {Burst(n, k) : n \in (MaxLongLines - 1)..MaxLongLines, k \in {0, 1, MaxLongLines}}

-----------------------------------------------------------------------------
(* LogParser and the generators made by parse_file_streaming               *)

Streams == DOMAIN pc

Active == {"loop", "suspended"}

NoTs == [dt_ok |-> FALSE, local |-> 0, tz |-> <<>>]

Pending == [kind |-> "pending", entry |-> <<>>, msg |-> <<>>]

NoException == [kind |-> "", msg |-> <<>>, line_num |-> 0]

\* the message f"Line {line_num}: {str(e)}"
ErrorMsg(line_num, m) == [line_num |-> line_num, text |-> m]

\* LogParser.__init__ and one generator object per id in S, not yet started
InitStreams(S) ==
    /\ parsed_count = 0
    /\ error_count = 0
    /\ errors = <<>>
    /\ pos = [s \in S |-> 0]
    /\ pc = [s \in S |-> "created"]
    /\ received = [s \in S |-> <<>>]
    /\ raised = [s \in S |-> NoException]
    /\ running = 0
    /\ interleaved = [s \in S |-> FALSE]

\* no LogAnalytics method has returned yet
NoResult == [op |-> "", n |-> 0, value |-> <<>>]

\* nothing was constructed or analysed
NoAnalytics ==
    /\ entry_in = <<>>
    /\ entry_out = Pending
    /\ log_entries = <<>>
    /\ an_out = NoResult
    /\ sorted_entries = <<>>
    /\ window_minutes = 0
    /\ current_time = 0
    /\ trends = <<>>
    /\ tpc = "idle"
    /\ stats = None

NoCalls ==
    /\ ts_in = NoTs
    /\ ts_out = TsError(<<>>)
    /\ line_in = ClfLine
    /\ line_out = Pending
    /\ NoAnalytics

Init ==
    /\ strict_mode \in BOOLEAN
    /\ exists \in [{1} -> BOOLEAN]
    /\ InitStreams({1})
    /\ \E f \in FilesOver(LineNames, MaxLines) \cup BurstFiles :
          /\ exists[1] \/ f = <<>>
          /\ file = [s \in {1} |-> f]
    /\ NoCalls

\* next(generator) called by the consumer
CallNext(s) ==
    /\ running = 0
    /\ pc[s] \in {"created", "suspended"}
    /\ running' = s
    /\ pc' = [pc EXCEPT ![s] = IF pc[s] = "created" THEN "entered" ELSE "loop"]
    /\ UNCHANGED <<parserVars, exists, file, pos, received, raised, interleaved>>
    /\ UNCHANGED fnVars

\* the other generators that are between their reset and their end
Others(s) == {t \in Streams : t # s /\ pc[t] \in Active}

Disturb(s) == [t \in Streams |-> interleaved[t] \/ t \in Others(s)]

\* RaiseNotFound with a seeded fault: the counters are reset before the path is checked
RaiseNotFoundAfterReset(s) ==
    /\ running = s
    /\ pc[s] = "entered"
    /\ ~exists[s]
    /\ parsed_count' = 0
    /\ error_count' = 0
    /\ errors' = <<>>
    /\ pc' = [pc EXCEPT ![s] = "FileNotFoundError"]
    /\ raised' = [raised EXCEPT ![s] =
                     [kind |-> "FileNotFoundError", msg |-> <<>>, line_num |-> 0]]
    /\ running' = 0
    /\ UNCHANGED <<strict_mode, exists, file, pos, received, interleaved>>
    /\ UNCHANGED fnVars

\* parse_file_streaming, lines 89-91: the path does not exist
RaiseNotFound(s) ==
    /\ running = s
    /\ pc[s] = "entered"
    /\ ~exists[s]
    /\ pc' = [pc EXCEPT ![s] = "FileNotFoundError"]
    /\ raised' = [raised EXCEPT ![s] =
                     [kind |-> "FileNotFoundError", msg |-> <<>>, line_num |-> 0]]
    /\ running' = 0
    /\ UNCHANGED <<parserVars, exists, file, pos, received, interleaved>>
    /\ UNCHANGED fnVars

\* ResetCounters with a seeded fault: the counters of the previous call are kept
ResetCountersKeeps(s) ==
    /\ running = s
    /\ pc[s] = "entered"
    /\ exists[s]
    /\ pc' = [pc EXCEPT ![s] = "loop"]
    /\ interleaved' = Disturb(s)
    /\ UNCHANGED <<parserVars, exists, file, pos, received, raised, running>>
    /\ UNCHANGED fnVars

\* parse_file_streaming, lines 93-104: reset the counters, open the file
ResetCounters(s) ==
    /\ running = s
    /\ pc[s] = "entered"
    /\ exists[s]
    /\ parsed_count' = 0
    /\ error_count' = 0
    /\ errors' = <<>>
    /\ pc' = [pc EXCEPT ![s] = "loop"]
    /\ interleaved' = Disturb(s)
    /\ UNCHANGED <<strict_mode, exists, file, pos, received, raised, running>>
    /\ UNCHANGED fnVars

\* the generator s is about to read a line
AtLine(s) == running = s /\ pc[s] = "loop" /\ pos[s] < Len(file[s])

\* the line read next, stripped (line 109)
NextLine(s) == Strip(LineOf(file[s][pos[s] + 1]))

\* line 110
Skipped(l) == IsEmptyStr(l) \/ StartsWithHash(l)

\* what the body of the loop finds for line l: it is skipped, or parse_line
\* returns an entry or raises
Outcome(l) ==
    IF Skipped(l) THEN [kind |-> "skip", entry |-> <<>>, msg |-> <<>>]
    ELSE ParseLine(l)

Advance(s) == pos' = [pos EXCEPT ![s] = pos[s] + 1]

Skip(s, r) ==
    /\ r.kind = "skip"
    /\ Advance(s)
    /\ UNCHANGED <<parserVars, exists, file, pc, received, raised, running,
                   interleaved>>

\* _parse_stream, lines 108-111: an empty line or a comment
SkipLine(s) ==
    /\ AtLine(s)
    /\ Skip(s, Outcome(NextLine(s)))
    /\ UNCHANGED fnVars

\* Yield with a seeded fault: the entry is yielded before it is counted
YieldUncounted(s, r) ==
    /\ r.kind = "entry"
    /\ Advance(s)
    /\ received' = [received EXCEPT ![s] = Append(received[s], r.entry[1])]
    /\ pc' = [pc EXCEPT ![s] = "suspended"]
    /\ running' = 0
    /\ interleaved' = Disturb(s)
    /\ UNCHANGED <<parserVars, exists, file, raised>>

Yield(s, r) ==
    /\ r.kind = "entry"
    /\ Advance(s)
    /\ parsed_count' = parsed_count + 1
    /\ received' = [received EXCEPT ![s] = Append(received[s], r.entry[1])]
    /\ pc' = [pc EXCEPT ![s] = "suspended"]
    /\ running' = 0
    /\ interleaved' = Disturb(s)
    /\ UNCHANGED <<strict_mode, error_count, errors, exists, file, raised>>

\* _parse_stream, lines 113-117: the line parses, the entry is yielded
YieldEntry(s) ==
    /\ AtLine(s)
    /\ Yield(s, Outcome(NextLine(s)))
    /\ UNCHANGED fnVars

\* Except with a seeded fault: the error is raised in lenient mode as well
ExceptAlwaysRaises(s, r) ==
    /\ r.kind = "ParseError"
    /\ Advance(s)
    /\ error_count' = error_count + 1
    /\ errors' = Append(errors, ErrorMsg(pos[s] + 1, r.msg))
    /\ interleaved' = Disturb(s)
    /\ pc' = [pc EXCEPT ![s] = "ParseError"]
    /\ raised' = [raised EXCEPT ![s] =
                     [kind |-> "ParseError", msg |-> r.msg,
                      line_num |-> pos[s] + 1]]
    /\ running' = 0
    /\ UNCHANGED <<strict_mode, parsed_count, exists, file, received>>

\* Except with a seeded fault: the message carries the number of the error
ExceptNumberedByErrors(s, r) ==
    /\ r.kind = "ParseError"
    /\ Advance(s)
    /\ error_count' = error_count + 1
    /\ errors' = Append(errors, ErrorMsg(error_count + 1, r.msg))
    /\ interleaved' = Disturb(s)
    /\ IF strict_mode
       THEN /\ pc' = [pc EXCEPT ![s] = "ParseError"]
            /\ raised' = [raised EXCEPT ![s] =
                             [kind |-> "ParseError", msg |-> r.msg,
                              line_num |-> error_count + 1]]
            /\ running' = 0
       ELSE UNCHANGED <<pc, raised, running>>
    /\ UNCHANGED <<strict_mode, parsed_count, exists, file, received>>

Except(s, r) ==
    /\ r.kind = "ParseError"
    /\ Advance(s)
    /\ error_count' = error_count + 1
    /\ errors' = Append(errors, ErrorMsg(pos[s] + 1, r.msg))
    /\ interleaved' = Disturb(s)
    /\ IF strict_mode
       THEN /\ pc' = [pc EXCEPT ![s] = "ParseError"]
            /\ raised' = [raised EXCEPT ![s] =
                             [kind |-> "ParseError", msg |-> r.msg,
                              line_num |-> pos[s] + 1]]
            /\ running' = 0
       ELSE UNCHANGED <<pc, raised, running>>
    /\ UNCHANGED <<strict_mode, parsed_count, exists, file, received>>

\* _parse_stream, lines 118-125: parse_line raised ParseError
HandleParseError(s) ==
    /\ AtLine(s)
    /\ Except(s, Outcome(NextLine(s)))
    /\ UNCHANGED fnVars

Propagate(s, r) ==
    /\ r.kind \notin {"skip", "entry", "ParseError"}
    /\ Advance(s)
    /\ pc' = [pc EXCEPT ![s] = r.kind]
    /\ raised' = [raised EXCEPT ![s] =
                     [kind |-> r.kind, msg |-> r.msg, line_num |-> 0]]
    /\ running' = 0
    /\ UNCHANGED <<parserVars, exists, file, received, interleaved>>

\* _parse_stream, lines 113-118: parse_line raised an exception that the
\* except clause does not name; it leaves the generator
PropagateOther(s) ==
    /\ AtLine(s)
    /\ Propagate(s, Outcome(NextLine(s)))
    /\ UNCHANGED fnVars

\* _parse_stream, line 108: the source is exhausted, the generator returns
Exhausted(s) ==
    /\ running = s
    /\ pc[s] = "loop"
    /\ pos[s] = Len(file[s])
    /\ pc' = [pc EXCEPT ![s] = "done"]
    /\ running' = 0
    /\ UNCHANGED <<parserVars, exists, file, pos, received, raised, interleaved>>
    /\ UNCHANGED fnVars

ReportedErrors == 10

\* ParsingStats with a seeded fault: the last 10 messages are reported
ParsingStatsLastErrors(pcount, ecount, errs) ==
    [parsed_count |-> pcount,
     error_count  |-> ecount,
     success_rate |-> IF pcount + ecount > 0
                      THEN [num |-> pcount, den |-> pcount + ecount]
                      ELSE [num |-> 0, den |-> 1],
     errors       |-> IF Len(errs) <= ReportedErrors THEN errs
                      ELSE SubSeq(errs, Len(errs) - ReportedErrors + 1, Len(errs))]

\* the dict built by get_parsing_stats, lines 328-334; the quotient is kept
\* as numerator and denominator
ParsingStats(pcount, ecount, errs) ==
    [parsed_count |-> pcount,
     error_count  |-> ecount,
     success_rate |-> IF pcount + ecount > 0
                      THEN [num |-> pcount, den |-> pcount + ecount]
                      ELSE [num |-> 0, den |-> 1],
     errors       |-> IF Len(errs) <= ReportedErrors THEN errs
                      ELSE SubSeq(errs, 1, ReportedErrors)]

\* LogParser.get_parsing_stats, called by the consumer between two steps of
\* the generators
GetParsingStats ==
    /\ running = 0
    /\ stats' = Some(ParsingStats(parsed_count, error_count, errors))
    /\ UNCHANGED <<parserVars, streamVars, file>>
    /\ UNCHANGED <<ts_in, ts_out, line_in, line_out, anVars, trendVars>>

\* the consumer stops iterating early and drops the suspended generator
Close(s) ==
    /\ running = 0
    /\ pc[s] = "suspended"
    /\ pc' = [pc EXCEPT ![s] = "closed"]
    /\ UNCHANGED <<parserVars, exists, file, pos, received, raised, running,
                   interleaved>>
    /\ UNCHANGED fnVars

Next ==
    \/ \E s \in Streams : CallNext(s)
    \/ \E s \in Streams : RaiseNotFound(s)
    \/ \E s \in Streams : ResetCounters(s)
    \/ \E s \in Streams : SkipLine(s)
    \/ \E s \in Streams : YieldEntry(s)
    \/ \E s \in Streams : HandleParseError(s)
    \/ \E s \in Streams : PropagateOther(s)
    \/ \E s \in Streams : Exhausted(s)
    \/ \E s \in Streams : Close(s)
    \/ GetParsingStats

\* one parser, one parse_file_streaming call on one source
Spec == Init /\ [][Next]_vars

-----------------------------------------------------------------------------
(* Several parse_file_streaming calls on one parser instance, consumed in  *)
(* any order by the single-threaded caller                                 *)

MultiStreams == {1, 2}

MaxMultiLines == 2

MultiNames == {"clf", "blank", "garbage", "bad_status"}

InitMulti ==
    /\ strict_mode \in BOOLEAN
    /\ exists \in [MultiStreams -> BOOLEAN]
    /\ InitStreams(MultiStreams)
    /\ file \in [MultiStreams -> FilesOver(MultiNames, MaxMultiLines)]
    /\ \A s \in MultiStreams : exists[s] \/ file[s] = <<>>
    /\ NoCalls

SpecMulti == InitMulti /\ [][Next]_vars

-----------------------------------------------------------------------------
(* Direct calls of _parse_timestamp and parse_line                         *)

\* sign and four digits
WellFormedTz ==
    {<<sg, a, b, c, d>> : sg \in {"+", "-"}, a \in Digits, b \in Digits,
                          c \in Digits, d \in Digits}

OtherTz ==
    {<<>>, <<"Z">>, <<"U", "T", "C">>, <<"E", "S", "T">>,
     <<"+", "A", "B", "C", "D">>, <<"-", "0", "5", "x", "0">>,
     <<"+", "1", "4">>, <<"0", "1", "0", "0">>,
     <<"+", "0", "5", ":", "3", "0">>, <<"-", "1", "2", ":", "0", "0">>,
     <<"+", "1", "4", ":", "0", "1">>,
     <<"+", "0", "5", "3", "0", "1", "5">>,
     <<"+", "1", "4", "0", "0", "0", "1">>}

InitTs ==
    /\ strict_mode = FALSE
    /\ exists = [s \in {1} |-> TRUE]
    /\ InitStreams({1})
    /\ file = [s \in {1} |-> <<>>]
    /\ ts_in \in [dt_ok : BOOLEAN, local : {0}, tz : WellFormedTz \cup OtherTz]
    /\ ts_out = TsError(<<>>)
    /\ line_in = ClfLine
    /\ line_out = Pending
    /\ NoAnalytics

\* self._parse_timestamp(ts_in)
CallParseTimestamp ==
    /\ ts_out = TsError(<<>>)
    /\ ts_out' = ParseTimestamp(ts_in)
    /\ UNCHANGED <<parserVars, streamVars, file, ts_in, line_in, line_out>>
    /\ UNCHANGED <<anVars, trendVars, stats>>

NextTs == CallParseTimestamp

SpecTs == InitTs /\ [][NextTs]_vars

NineNines == << <<"9", "9", "9">>, <<"9", "9", "9">>, <<"9", "9", "9">>,
                <<"9", "9", "9">> >>

SampleIps ==
    {Loopback, Localhost, NineNines,
     << <<"1">>, <<"2">>, <<"3">> >>,
     << <<"1", "2", "3", "4">>, <<"0">>, <<"0">>, <<"1">> >>}

SampleTs ==
    {[dt_ok |-> TRUE, local |-> 0, tz |-> Utc],
     [dt_ok |-> TRUE, local |-> 0, tz |-> <<>>],
     [dt_ok |-> FALSE, local |-> 0, tz |-> <<>>],
     [dt_ok |-> TRUE, local |-> 0, tz |-> <<"+", "1", "5", "0", "0">>],
     [dt_ok |-> TRUE, local |-> 0, tz |-> <<"+", "A", "B", "C", "D">>]}

SampleStatus ==
    {<<"2", "0", "0">>, <<"1", "0", "0">>, <<"5", "9", "9">>, <<"9", "9">>,
     <<"6", "0", "0">>, <<"a", "b", "c">>}

SampleSizes == {<<"1", "0", "0">>, <<"0">>, <<"-">>, <<"a", "b", "c">>}

SampleLines ==
    {[lead |-> 0, kind |-> k, ip |-> ip, ts |-> ts, method |-> m,
      path |-> "/test", protocol |-> "HTTP/1.1", status |-> st, size |-> sz,
      tail |-> tl, referrer |-> "-", user_agent |-> "Mozilla/5.0", rt |-> rt] :
        k \in {"fields"}, ip \in SampleIps, ts \in SampleTs,
        m \in {"GET", "OPTIONS", "FETCH", "get"}, st \in SampleStatus,
        sz \in SampleSizes, tl \in {0, 2, 3},
        rt \in {<<"1", "5", "0", "0">>, <<"f", "a", "s", "t">>}}
    \cup {Strip(LineOf(n)) : n \in LineNames}

InitLine ==
    /\ strict_mode = FALSE
    /\ exists = [s \in {1} |-> TRUE]
    /\ InitStreams({1})
    /\ file = [s \in {1} |-> <<>>]
    /\ ts_in = NoTs
    /\ ts_out = TsError(<<>>)
    /\ line_in \in SampleLines
    /\ line_out = Pending
    /\ NoAnalytics

\* self.parse_line(line_in)
CallParseLine ==
    /\ line_out = Pending
    /\ line_out' = ParseLine(line_in)
    /\ UNCHANGED <<parserVars, streamVars, file, ts_in, ts_out, line_in>>
    /\ UNCHANGED <<anVars, trendVars, stats>>

NextLineCall == CallParseLine

SpecLine == InitLine /\ [][NextLineCall]_vars

\* ip_address values given to the constructor; <<>> is '' (or None)
EntryIps ==
    SampleIps \cup
        {<<>>,
         << <<"1", "2", "7">>, <<"0">>, <<"0">>, <<"1", "\n">> >>,
         << <<"1">>, <<"2">>, <<"3">>, <<"4">>, <<"5">> >>}

EntryStatus == {-1, 0, 99, 100, 200, 404, 599, 600}

EntrySizes == {-1, 0, 1, 1234}

InitEntry ==
    /\ strict_mode = FALSE
    /\ exists = [s \in {1} |-> TRUE]
    /\ InitStreams({1})
    /\ file = [s \in {1} |-> <<>>]
    /\ ts_in = NoTs
    /\ ts_out = TsError(<<>>)
    /\ line_in = ClfLine
    /\ line_out = Pending
    /\ entry_in \in
           [ip_address : EntryIps, timestamp : {[local |-> 0, aware |-> TRUE,
                                                 offset |-> 0]},
            method : {"GET"}, path : {"/test"}, protocol : {"HTTP/1.1"},
            status_code : EntryStatus, response_size : EntrySizes,
            referrer : {None}, user_agent : {None}, response_time : {None}]
    /\ entry_out = Pending
    /\ log_entries = <<>>
    /\ an_out = NoResult
    /\ sorted_entries = <<>>
    /\ window_minutes = 0
    /\ current_time = 0
    /\ trends = <<>>
    /\ tpc = "idle"
    /\ stats = None

\* LogEntry(**entry_in)
CallLogEntry ==
    /\ entry_in # <<>>
    /\ entry_out = Pending
    /\ entry_out' = NewLogEntry(entry_in)
    /\ UNCHANGED <<parserVars, streamVars, file, ts_in, ts_out, line_in, line_out>>
    /\ UNCHANGED <<entry_in, log_entries, an_out, trendVars, stats>>

NextEntry == CallLogEntry

SpecEntry == InitEntry /\ [][NextEntry]_vars

-----------------------------------------------------------------------------
(* LogAnalytics (src/analytics.py).  An entry is a LogEntry record; its    *)
(* timestamp.local counts the minutes since 00:00 of the first day, its    *)
(* ip_address and path are compared for equality only, its user_agent and  *)
(* referrer are None or Some(text), text a sequence of characters.         *)
(* A dict whose order matters is a sequence of <<key, value>> pairs in     *)
(* insertion order, any other dict a function on its keys; a quotient of   *)
(* integers is kept exact as [num, den].                                   *)

\* LogEntry.is_error
IsError(e) == e.status_code >= 400

\* the positions of vals at which a value occurs for the first time
FirstOccurrences(vals) ==
    {i \in 1..Len(vals) : \A j \in 1..(i - 1) : vals[j] # vals[i]}

\* Counter(vals): the distinct values in the order of their first occurrence
\* (the insertion order of the dict), each with the number of its occurrences
Counter(vals) ==
    [k \in 1..Cardinality(FirstOccurrences(vals)) |->
        LET i == CHOOSE x \in FirstOccurrences(vals) :
                     Cardinality({y \in FirstOccurrences(vals) : y < x}) = k - 1
        IN  <<vals[i], Cardinality({j \in 1..Len(vals) : vals[j] = vals[i]})>>]

\* FirstLargest with a seeded fault: among equal counts the last one wins
LastLargest(c) ==
    CHOOSE k \in 1..Len(c) :
        /\ \A j \in 1..Len(c) : c[j][2] <= c[k][2]
        /\ \A j \in (k + 1)..Len(c) : c[j][2] < c[k][2]

\* the first position of c holding the largest count
FirstLargest(c) ==
    CHOOSE k \in 1..Len(c) :
        /\ \A j \in 1..Len(c) : c[j][2] <= c[k][2]
        /\ \A j \in 1..(k - 1) : c[j][2] < c[k][2]

RECURSIVE MostCommon(_, _)
\* Counter.most_common(n) for an integer n: heapq.nlargest by count, equal
\* counts in insertion order; nothing for n <= 0
MostCommon(c, n) ==
    IF n <= 0 \/ c = <<>> THEN <<>>
    ELSE LET k == FirstLargest(c)
         IN  <<c[k]>> \o MostCommon(SubSeq(c, 1, k - 1) \o SubSeq(c, k + 1, Len(c)),
                                    n - 1)

\* [entry.field for entry in entries]
Column(entries, field) == [i \in 1..Len(entries) |-> entries[i][field]]

\* the truthy values of an Optional[str] column: None and '' are dropped
TruthyTexts(col) ==
    LET keep == SelectSeq(col, LAMBDA o : o # None /\ o[1] # <<>>)
    IN  [i \in 1..Len(keep) |-> keep[i][1]]

\* LogAnalytics.get_top_endpoints
GetTopEndpoints(entries, n) == MostCommon(Counter(Column(entries, "path")), n)

\* LogAnalytics.get_top_ips
GetTopIps(entries, n) == MostCommon(Counter(Column(entries, "ip_address")), n)

\* LogAnalytics.analyze_user_agents
AnalyzeUserAgents(entries, n) ==
    MostCommon(Counter(TruthyTexts(Column(entries, "user_agent"))), n)

\* LogAnalytics.analyze_referrers
AnalyzeReferrers(entries, n) ==
    MostCommon(Counter(TruthyTexts(Column(entries, "referrer"))), n)

\* the two digits of a number below 100
TwoDigits(h) == <<DigitSeq[(h \div 10) + 1], DigitSeq[(h % 10) + 1]>>

MinutesPerHour == 60

HoursPerDay == 24

\* entry.timestamp.strftime('%H:00'): the hour of the wall clock
StrftimeHour(e) ==
    TwoDigits((e.timestamp.local \div MinutesPerHour) % HoursPerDay) \o <<":", "0", "0">>

\* f"{hour:02d}:00"
FormatHour(hour) ==
    (IF hour < 10 THEN <<"0", DigitSeq[hour + 1]>> ELSE TwoDigits(hour))
        \o <<":", "0", "0">>

\* the value under key of a counter, 0 if the key is absent
CountOf(c, key) ==
    IF \E k \in 1..Len(c) : c[k][1] = key
    THEN c[CHOOSE k \in 1..Len(c) : c[k][1] = key][2]
    ELSE 0

\* LogAnalytics.get_hourly_traffic_pattern
GetHourlyTrafficPattern(entries) ==
    LET counted == Counter([i \in 1..Len(entries) |-> StrftimeHour(entries[i])])
        keys    == {counted[k][1] : k \in 1..Len(counted)}
                       \cup {FormatHour(hour) : hour \in 0..(HoursPerDay - 1)}
    IN  [key \in keys |-> CountOf(counted, key)]


\* LogAnalytics.get_status_code_distribution
GetStatusCodeDistribution(entries) == Counter(Column(entries, "status_code"))

\* LogAnalytics.get_unique_ip_count
GetUniqueIpCount(entries) == Cardinality({entries[i].ip_address : i \in 1..Len(entries)})

\* GetErrorEntries with a seeded fault: only the server errors are kept
GetServerErrorEntries(entries) ==
    SelectSeq(entries, LAMBDA e : e.status_code >= 500)

\* LogAnalytics.get_error_entries
GetErrorEntries(entries) == SelectSeq(entries, IsError)

RECURSIVE SumSizes(_)
\* sum(entry.response_size for entry in entries)
SumSizes(entries) ==
    IF entries = <<>> THEN 0
    ELSE IF Len(entries) = 1 THEN entries[1].response_size
    ELSE LET half == Len(entries) \div 2
         IN  SumSizes(SubSeq(entries, 1, half))
                 + SumSizes(SubSeq(entries, half + 1, Len(entries)))

Percent == 100

\* LogAnalytics.calculate_error_rate
CalculateErrorRate(entries) ==
    IF Len(entries) = 0 THEN [num |-> 0, den |-> 1]
    ELSE [num |-> Len(GetErrorEntries(entries)) * Percent, den |-> Len(entries)]

\* LogAnalytics.calculate_avg_response_size
CalculateAvgResponseSize(entries) ==
    IF entries = <<>> THEN [num |-> 0, den |-> 1]
    ELSE [num |-> SumSizes(entries), den |-> Len(entries)]

\* EmptyReport with a seeded fault: one IP is counted in the empty report
EmptyReportOneIp ==
    [total_requests |-> 0, unique_ips |-> 1,
     error_rate |-> [num |-> 0, den |-> 1],
     avg_response_size |-> [num |-> 0, den |-> 1],
     top_endpoints |-> <<>>, top_ips |-> <<>>,
     status_code_distribution |-> <<>>,
     hourly_traffic |-> <<>>,
     error_log |-> <<>>]

\* LogAnalytics._empty_report
EmptyReport ==
    [total_requests |-> 0, unique_ips |-> 0,
     error_rate |-> [num |-> 0, den |-> 1],
     avg_response_size |-> [num |-> 0, den |-> 1],
     top_endpoints |-> <<>>, top_ips |-> <<>>,
     status_code_distribution |-> <<>>,
     hourly_traffic |-> <<>>,
     error_log |-> <<>>]

\* LogAnalytics.generate_report
GenerateReport(entries, top_n) ==
    IF entries = <<>> THEN EmptyReport
    ELSE [total_requests |-> Len(entries),
          unique_ips |-> GetUniqueIpCount(entries),
          error_rate |-> CalculateErrorRate(entries),
          avg_response_size |-> CalculateAvgResponseSize(entries),
          top_endpoints |-> GetTopEndpoints(entries, top_n),
          top_ips |-> GetTopIps(entries, top_n),
          status_code_distribution |-> GetStatusCodeDistribution(entries),
          hourly_traffic |-> GetHourlyTrafficPattern(entries),
          error_log |-> GetErrorEntries(entries)]

UpperCase == <<"A", "B", "C", "D", "E", "F", "G", "H", "I", "J", "K", "L", "M",
               "N", "O", "P", "Q", "R", "S", "T", "U", "V", "W", "X", "Y", "Z">>

LowerCase == <<"a", "b", "c", "d", "e", "f", "g", "h", "i", "j", "k", "l", "m",
               "n", "o", "p", "q", "r", "s", "t", "u", "v", "w", "x", "y", "z">>

\* str.lower()
Lower(text) ==
    [i \in 1..Len(text) |->
        IF \E k \in 1..Len(UpperCase) : UpperCase[k] = text[i]
        THEN LowerCase[CHOOSE k \in 1..Len(UpperCase) : UpperCase[k] = text[i]]
        ELSE text[i]]

\* indicator in text
Contains(text, indicator) ==
    \E i \in 1..(Len(text) - Len(indicator) + 1) :
        SubSeq(text, i, i + Len(indicator) - 1) = indicator

bot_indicators ==
    << <<"b", "o", "t">>, <<"c", "r", "a", "w", "l", "e", "r">>,
       <<"s", "p", "i", "d", "e", "r">>, <<"s", "c", "r", "a", "p", "e", "r">> >>

\* the entries whose user agent names a bot
BotEntries(entries) ==
    SelectSeq(entries,
              LAMBDA e : /\ e.user_agent # None /\ e.user_agent[1] # <<>>
                         /\ \E k \in 1..Len(bot_indicators) :
                                Contains(Lower(e.user_agent[1]), bot_indicators[k]))

VolumeFactor == 10

MinHighVolume == 100

MinErrorTotal == 10

MaxBots == 10

\* HighVolumeIps with a seeded fault: the threshold is the mean itself
HighVolumeIpsAboveMean(entries) ==
    LET ip_counts == Counter(Column(entries, "ip_address"))
        flagged   == {k \in 1..Len(ip_counts) :
                         /\ ip_counts[k][2] * Len(ip_counts) > Len(entries)
                         /\ ip_counts[k][2] > MinHighVolume}
    IN  [ip \in {ip_counts[k][1] : k \in flagged} |-> CountOf(ip_counts, ip)]

\* detect_suspicious_activity, lines 210-218; count > mean * 10 with the mean
\* total / k is computed exactly as count * k > total * 10
HighVolumeIps(entries) ==
    LET ip_counts == Counter(Column(entries, "ip_address"))
        flagged   == {k \in 1..Len(ip_counts) :
                         /\ ip_counts[k][2] * Len(ip_counts) > Len(entries) * VolumeFactor
                         /\ ip_counts[k][2] > MinHighVolume}
    IN  [ip \in {ip_counts[k][1] : k \in flagged} |-> CountOf(ip_counts, ip)]

\* HighErrorIps with a seeded fault: at least 10 requests, at least half errors
HighErrorIpsAtLeast(entries) ==
    LET ip_totals == Counter(Column(entries, "ip_address"))
        ip_errors == Counter(Column(GetErrorEntries(entries), "ip_address"))
        flagged   == {k \in 1..Len(ip_errors) :
                         /\ CountOf(ip_totals, ip_errors[k][1]) >= MinErrorTotal
                         /\ 2 * ip_errors[k][2] >= CountOf(ip_totals, ip_errors[k][1])}
    IN  [ip \in {ip_errors[k][1] : k \in flagged} |->
            [error_count    |-> CountOf(ip_errors, ip),
             total_requests |-> CountOf(ip_totals, ip),
             error_rate     |-> [num |-> CountOf(ip_errors, ip) * Percent,
                                 den |-> CountOf(ip_totals, ip)]]]

\* detect_suspicious_activity, lines 220-237; error_count / total > 0.5 is
\* computed exactly as 2 * error_count > total
HighErrorIps(entries) ==
    LET ip_totals == Counter(Column(entries, "ip_address"))
        ip_errors == Counter(Column(GetErrorEntries(entries), "ip_address"))
        flagged   == {k \in 1..Len(ip_errors) :
                         /\ CountOf(ip_totals, ip_errors[k][1]) > MinErrorTotal
                         /\ 2 * ip_errors[k][2] > CountOf(ip_totals, ip_errors[k][1])}
    IN  [ip \in {ip_errors[k][1] : k \in flagged} |->
            [error_count    |-> CountOf(ip_errors, ip),
             total_requests |-> CountOf(ip_totals, ip),
             error_rate     |-> [num |-> CountOf(ip_errors, ip) * Percent,
                                 den |-> CountOf(ip_totals, ip)]]]

\* LogAnalytics.detect_suspicious_activity
DetectSuspiciousActivity(entries) ==
    [high_volume_ips |-> HighVolumeIps(entries),
     high_error_ips  |-> HighErrorIps(entries),
     potential_bots  |-> MostCommon(Counter(Column(BotEntries(entries), "ip_address")),
                                    MaxBots)]

Mozilla == <<"M", "o", "z", "i", "l", "l", "a">>

Googlebot == <<"G", "o", "o", "g", "l", "e", "b", "o", "t">>

Curl == <<"c", "u", "r", "l">>

ExampleCom == <<"e", "x", "a", "m", "p", "l", "e">>

\* LogEntry(ip_address=ip, timestamp=day 0 00:00 + local minutes, ...); an
\* address is written <<"a.b.c", d>> for 'a.b.c.d'
AEntry(ip, local, path, status, size, ua, ref) ==
    [ip_address |-> ip,
     timestamp |-> [local |-> local, aware |-> TRUE, offset |-> 0],
     method |-> "GET", path |-> path, protocol |-> "HTTP/1.1",
     status_code |-> status, response_size |-> size,
     referrer |-> ref, user_agent |-> ua, response_time |-> None]

\* entries at 00:05, 13:30 and 23:59 of the first day and 13:00 of the next
SampleEntries ==
    {AEntry(<<"10.0.0", 1>>, 5, "/a", 200, 100, Some(Mozilla), None),
     AEntry(<<"10.0.0", 2>>, 810, "/b", 404, 0, Some(Googlebot), Some(ExampleCom)),
     AEntry(<<"10.0.0", 3>>, 1439, "/c", 500, 300, None, Some(<<>>)),
     AEntry(<<"10.0.0", 1>>, 2220, "/b", 200, 50, Some(Curl), Some(ExampleCom))}

MaxEntries == 3

MaxTopN == 2

\* n copies of one entry
Repeat(e, n) == [i \in 1..n |-> e]

\* requests of one IP at 14:00, the first errs of them answered with 404
Requests(ip, total, errs) ==
    Repeat(AEntry(ip, 840, "/error", 404, 0, None, None), errs)
        \o Repeat(AEntry(ip, 840, "/test", 200, 100, None, None), total - errs)

\* the entries of test_suspicious_activity_detection: 200 requests of one
\* IP, 20 requests of a second all answered 404, one request of a bot
TestSuspiciousEntries ==
    Requests(<<"192.168.1", 200>>, 200, 0) \o Requests(<<"192.168.1", 201>>, 20, 20)
        \o <<AEntry(<<"192.168.1", 202>>, 840, "/robots.txt", 200, 100,
                    Some(Googlebot), None)>>

\* 200 requests of one IP among single requests of other IPs
Crowd(others) ==
    Requests(<<"192.168.1", 200>>, 200, 0)
        \o [i \in 1..others |-> AEntry(<<"10.0.1", i>>, 840, "/test", 200, 100,
                                       None, None)]

\* one IP around the thresholds of the error-rate rule, beside a second IP
ErrorRateEntries ==
    UNION {{Requests(<<"10.0.0", 1>>, total, errs) \o other :
                errs \in {0, 4, 5, 6, 7, 9, 12} \cap 0..total,
                other \in {<<>>, Requests(<<"10.0.0", 2>>, 11, 11),
                           Requests(<<"10.0.0", 2>>, 12, 6)}} : total \in 9..12}

AnalyticsInputs ==
    UNION {[1..k -> SampleEntries] : k \in 0..MaxEntries}
        \cup {TestSuspiciousEntries, Crowd(2), Crowd(9), Crowd(10), Crowd(12)}
        \cup ErrorRateEntries

\* LogAnalytics(log_entries)
InitAnalytics ==
    /\ strict_mode = FALSE
    /\ exists = [s \in {1} |-> TRUE]
    /\ InitStreams({1})
    /\ file = [s \in {1} |-> <<>>]
    /\ ts_in = NoTs
    /\ ts_out = TsError(<<>>)
    /\ line_in = ClfLine
    /\ line_out = Pending
    /\ entry_in = <<>>
    /\ entry_out = Pending
    /\ log_entries \in AnalyticsInputs
    /\ an_out = NoResult
    /\ sorted_entries = <<>>
    /\ window_minutes = 0
    /\ current_time = 0
    /\ trends = <<>>
    /\ tpc = "idle"
    /\ stats = None

\* a method of LogAnalytics returns value
Return(op, n, value) ==
    /\ an_out = NoResult
    /\ an_out' = [op |-> op, n |-> n, value |-> value]
    /\ UNCHANGED <<parserVars, streamVars, file, ts_in, ts_out, line_in, line_out>>
    /\ UNCHANGED <<entry_in, entry_out, log_entries, trendVars, stats>>

CallGenerateReport ==
    \E top_n \in 0..MaxTopN :
        Return("generate_report", top_n, GenerateReport(log_entries, top_n))

CallGetHourlyTrafficPattern ==
    Return("get_hourly_traffic_pattern", 0, GetHourlyTrafficPattern(log_entries))

CallGetTopEndpoints ==
    \E n \in 0..MaxTopN :
        Return("get_top_endpoints", n, GetTopEndpoints(log_entries, n))

CallGetTopIps ==
    \E n \in 0..MaxTopN : Return("get_top_ips", n, GetTopIps(log_entries, n))

CallAnalyzeUserAgents ==
    \E n \in 0..MaxTopN :
        Return("analyze_user_agents", n, AnalyzeUserAgents(log_entries, n))

CallAnalyzeReferrers ==
    \E n \in 0..MaxTopN :
        Return("analyze_referrers", n, AnalyzeReferrers(log_entries, n))

CallDetectSuspiciousActivity ==
    Return("detect_suspicious_activity", 0, DetectSuspiciousActivity(log_entries))

RateUnits == 10000

SizeUnits == 100

\* round(q, ndigits) counted in units of 10^-ndigits: the integers nearest
\* to q * units; on a tie, which the float may lie on either side of, both
Rounded(q, units) ==
    LET below == (q.num * units) \div q.den
    IN  {n \in {below, below + 1} :
            2 * (n * q.den - q.num * units) <= q.den
                /\ 2 * (q.num * units - n * q.den) <= q.den}

\* AnalyticsReport.to_dict
ToDict(report, error_rate, avg_response_size) ==
    [total_requests |-> report.total_requests,
     unique_ips |-> report.unique_ips,
     error_rate |-> error_rate,
     avg_response_size |-> avg_response_size,
     top_endpoints |-> report.top_endpoints,
     top_ips |-> report.top_ips,
     status_code_distribution |-> report.status_code_distribution,
     hourly_traffic |-> report.hourly_traffic,
     error_count |-> Len(report.error_log)]

\* report.to_dict() on the report that generate_report returned
CallToDict ==
    /\ an_out.op = "generate_report"
    /\ \E r \in Rounded(an_out.value.error_rate, RateUnits),
          a \in Rounded(an_out.value.avg_response_size, SizeUnits) :
          an_out' = [op |-> "to_dict", n |-> an_out.n,
                     value |-> ToDict(an_out.value, r, a)]
    /\ UNCHANGED <<parserVars, streamVars, file, ts_in, ts_out, line_in, line_out>>
    /\ UNCHANGED <<entry_in, entry_out, log_entries, trendVars, stats>>

NextAnalytics ==
    \/ CallGenerateReport
    \/ CallGetHourlyTrafficPattern
    \/ CallGetTopEndpoints
    \/ CallGetTopIps
    \/ CallAnalyzeUserAgents
    \/ CallAnalyzeReferrers
    \/ CallDetectSuspiciousActivity
    \/ CallToDict

SpecAnalytics == InitAnalytics /\ [][NextAnalytics]_vars

-----------------------------------------------------------------------------
(* TrendAnalyzer (src/analytics.py).  Times are minutes; every entry has   *)
(* an offset-aware UTC timestamp, so that timestamps compare by their      *)
(* local minutes.                                                          *)

\* x.timestamp, the sort key and the value compared with the window's ends
TimeOf(e) == e.timestamp.local

\* the place of entries[i] after a stable ascending sort: behind the earlier
\* entries and behind the entries of the same time that precede it
SortedPlace(entries, i) ==
    Cardinality({j \in 1..Len(entries) :
                    \/ TimeOf(entries[j]) < TimeOf(entries[i])
                    \/ TimeOf(entries[j]) = TimeOf(entries[i]) /\ j <= i})

\* SortedByTimestamp with a seeded fault: the entries are kept as given
Unsorted(entries) == entries

\* sorted(log_entries, key=lambda x: x.timestamp): ascending and stable
SortedByTimestamp(entries) ==
    [p \in 1..Len(entries) |->
        entries[CHOOSE i \in 1..Len(entries) : SortedPlace(entries, i) = p]]

\* entries at 0:00, 0:59, 1:00 (two), 1:30 and 2:00
TrendEntries ==
    {AEntry(<<"10.0.0", 1>>, 0, "/a", 200, 100, None, None),
     AEntry(<<"10.0.0", 2>>, 59, "/b", 500, 100, None, None),
     AEntry(<<"10.0.0", 1>>, 60, "/a", 200, 100, None, None),
     AEntry(<<"10.0.0", 2>>, 60, "/b", 404, 100, None, None),
     AEntry(<<"10.0.0", 3>>, 90, "/c", 500, 100, None, None),
     AEntry(<<"10.0.0", 1>>, 120, "/a", 200, 100, None, None)}

MaxTrendEntries == 3

\* the entries of TestTrendAnalyzer: two hours from 13:00, every 10 minutes
\* five requests of five IPs, the fifth answered with 500; the seconds
\* 0..4 within the minute are dropped
TimeSeriesEntries ==
    [k \in 1..60 |->
        AEntry(<<"192.168.1", 100 + ((k - 1) % 5)>>,
               780 + 10 * ((k - 1) \div 5), "/test",
               IF (k - 1) % 5 < 4 THEN 200 ELSE 500,
               100 * (((k - 1) % 5) + 1), None, None)]

\* the same entries, latest first
Reversed(entries) == [i \in 1..Len(entries) |-> entries[Len(entries) + 1 - i]]

TrendInputs ==
    UNION {[1..k -> TrendEntries] : k \in 0..MaxTrendEntries}
        \cup {TimeSeriesEntries, Reversed(TimeSeriesEntries)}

\* values of window_minutes, 60 being the default
TrendWindows == {10, 30, 60}

\* TrendAnalyzer(log_entries)
InitTrends ==
    /\ strict_mode = FALSE
    /\ exists = [s \in {1} |-> TRUE]
    /\ InitStreams({1})
    /\ file = [s \in {1} |-> <<>>]
    /\ ts_in = NoTs
    /\ ts_out = TsError(<<>>)
    /\ line_in = ClfLine
    /\ line_out = Pending
    /\ entry_in = <<>>
    /\ entry_out = Pending
    /\ log_entries \in TrendInputs
    /\ an_out = NoResult
    /\ sorted_entries = SortedByTimestamp(log_entries)
    /\ window_minutes = 0
    /\ current_time = 0
    /\ trends = <<>>
    /\ tpc = "idle"
    /\ stats = None

notTrendVars ==
    <<parserVars, streamVars, file, ts_in, ts_out, line_in, line_out, anVars,
      stats>>

\* analyze_traffic_trends, lines 314-315: nothing to analyse
ReturnNoTrends ==
    /\ tpc = "idle"
    /\ sorted_entries = <<>>
    /\ \E w \in TrendWindows : window_minutes' = w
    /\ tpc' = "returned"
    /\ UNCHANGED <<sorted_entries, current_time, trends>>
    /\ UNCHANGED notTrendVars

\* analyze_traffic_trends, lines 317-322
StartTrends ==
    /\ tpc = "idle"
    /\ sorted_entries # <<>>
    /\ \E w \in TrendWindows : window_minutes' = w
    /\ trends' = <<>>
    /\ current_time' = TimeOf(sorted_entries[1])
    /\ tpc' = "loop"
    /\ UNCHANGED sorted_entries
    /\ UNCHANGED notTrendVars

\* end_time = self.log_entries[-1].timestamp
EndTime == TimeOf(sorted_entries[Len(sorted_entries)])

\* WindowRequests with a seeded fault: the window is closed at its end
WindowRequestsClosed(from, window_end) ==
    SelectSeq(sorted_entries, LAMBDA e : from <= TimeOf(e) /\ TimeOf(e) <= window_end)

\* the entries with current_time <= entry.timestamp < window_end
WindowRequests(from, window_end) ==
    SelectSeq(sorted_entries, LAMBDA e : from <= TimeOf(e) /\ TimeOf(e) < window_end)

\* set(entry.ip_address for entry in window_requests)
IpsOfWindow(window_requests) ==
    {window_requests[i].ip_address : i \in 1..Len(window_requests)}

\* the dict appended to trends for the window starting at from
TrendPoint(from, window_requests) ==
    [timestamp     |-> from,
     request_count |-> Len(window_requests),
     error_count   |-> Len(SelectSeq(window_requests, IsError)),
     error_rate    |-> [num |-> Len(SelectSeq(window_requests, IsError)) * Percent,
                        den |-> Len(window_requests)],
     unique_ips    |-> Cardinality(IpsOfWindow(window_requests))]

\* WindowStep with a seeded fault: the window start is not advanced
WindowStepStalls(window_requests) ==
    /\ tpc = "loop"
    /\ current_time < EndTime
    /\ trends' = IF window_requests # <<>>
                 THEN Append(trends, TrendPoint(current_time, window_requests))
                 ELSE trends
    /\ UNCHANGED <<sorted_entries, window_minutes, current_time, tpc>>
    /\ UNCHANGED notTrendVars

\* WindowStep with a seeded fault: a window without requests is emitted too
WindowStepAlways(window_requests) ==
    /\ tpc = "loop"
    /\ current_time < EndTime
    /\ trends' = Append(trends, TrendPoint(current_time, window_requests))
    /\ current_time' = current_time + window_minutes
    /\ UNCHANGED <<sorted_entries, window_minutes, tpc>>
    /\ UNCHANGED notTrendVars

\* one iteration of the while loop, lines 323-342
WindowStep(window_requests) ==
    /\ tpc = "loop"
    /\ current_time < EndTime
    /\ trends' = IF window_requests # <<>>
                 THEN Append(trends, TrendPoint(current_time, window_requests))
                 ELSE trends
    /\ current_time' = current_time + window_minutes
    /\ UNCHANGED <<sorted_entries, window_minutes, tpc>>
    /\ UNCHANGED notTrendVars

NextWindow ==
    WindowStep(WindowRequests(current_time, current_time + window_minutes))

\* the loop condition fails, line 344: return trends
ReturnTrends ==
    /\ tpc = "loop"
    /\ ~(current_time < EndTime)
    /\ tpc' = "returned"
    /\ UNCHANGED <<sorted_entries, window_minutes, current_time, trends>>
    /\ UNCHANGED notTrendVars

NextTrends ==
    \/ ReturnNoTrends
    \/ StartTrends
    \/ NextWindow
    \/ ReturnTrends

SpecTrends == InitTrends /\ [][NextTrends]_vars

\* analyze_traffic_trends(window_minutes=0), lines 317-322
StartTrendsZero ==
    /\ tpc = "idle"
    /\ sorted_entries # <<>>
    /\ window_minutes' = 0
    /\ trends' = <<>>
    /\ current_time' = TimeOf(sorted_entries[1])
    /\ tpc' = "loop"
    /\ UNCHANGED sorted_entries
    /\ UNCHANGED notTrendVars

NextLoop ==
    \/ ReturnNoTrends
    \/ StartTrends
    \/ StartTrendsZero
    \/ NextWindow
    \/ ReturnTrends

\* a call of analyze_traffic_trends, window_minutes = 0 included, that is
\* not suspended: the interpreter keeps executing the loop
SpecLoop == InitTrends /\ [][NextLoop]_vars /\ WF_vars(NextLoop)

-----------------------------------------------------------------------------
(* The specification's vocabulary, stated without the parser               *)

\* a blank line, or a line whose first non-space character is '#'
Ignorable(l) == l.kind \in {"empty", "comment"}

\* a sign followed by four digits
IsSignedHHMM(tz) ==
    Len(tz) = 5 /\ tz[1] \in {"+", "-"} /\ IsDigits(SubSeq(tz, 2, 5))

\* sign * (HH * 3600 + MM * 60)
OffsetSeconds(tz) ==
    (IF tz[1] = "-" THEN -1 ELSE 1)
        * (ToInt(SubSeq(tz, 2, 3)) * 3600 + ToInt(SubSeq(tz, 4, 5)) * 60)

OffsetInRange(tz) == -43200 <= OffsetSeconds(tz) /\ OffsetSeconds(tz) <= 50400

TimestampValid(ts) ==
    ts.dt_ok /\ (ts.tz = <<>> \/ (IsSignedHHMM(ts.tz) /\ OffsetInRange(ts.tz)))

DottedQuad(ip) ==
    Len(ip) = 4 /\ \A i \in 1..Len(ip) : Len(ip[i]) \in 1..3 /\ IsDigits(ip[i])

\* the line follows one of the three grammars and every field is valid
GrammarValid(l) ==
    /\ l.kind = "fields"
    /\ IsDigits(l.status)
    /\ IsDigits(l.size) \/ l.size = <<"-">>
    /\ l.tail \in {0, 2} \/ (l.tail = 3 /\ IsDigits(l.rt))
    /\ DottedQuad(l.ip)
    /\ TimestampValid(l.ts)
    /\ l.method \in {"GET", "POST", "PUT", "DELETE", "PATCH", "HEAD", "OPTIONS"}
    /\ ToInt(l.status) \in 100..599

ValidLine(l) == ~Ignorable(l) /\ GrammarValid(l)

InvalidLine(l) == ~Ignorable(l) /\ ~GrammarValid(l)

\* indices of the valid / invalid lines among the first n lines of source f
ValidIdx(f, n) == {i \in 1..n : ValidLine(LineOf(f[i]))}

InvalidIdx(f, n) == {i \in 1..n : InvalidLine(LineOf(f[i]))}

\* the i-th element of a set of indices, in ascending order
Nth(S, i) == CHOOSE k \in S : Cardinality({j \in S : j <= k}) = i

\* the paths of the valid lines among the first n lines of f, in source order
ValidPaths(f, n) ==
    [i \in 1..Cardinality(ValidIdx(f, n)) |-> LineOf(f[Nth(ValidIdx(f, n), i)]).path]

Paths(entries) == [i \in 1..Len(entries) |-> entries[i].path]

\* the iteration over generator s has ended: StopIteration or an exception
Ended(s) == pc[s] \in {"done", "ParseError", "ValueError"}

-----------------------------------------------------------------------------
(* Claims                                                                  *)

\* C1: a lenient stream parse that was consumed to its end has yielded
\* exactly the entries of the valid lines, in source order, and ends with
\* parsed_count = number of valid lines, error_count = number of invalid lines.
C1_LenientYieldsValidLines ==
    \A s \in Streams :
        (~strict_mode /\ Ended(s)) =>
            /\ Paths(received[s]) = ValidPaths(file[s], Len(file[s]))
            /\ parsed_count = Cardinality(ValidIdx(file[s], Len(file[s])))
            /\ error_count = Cardinality(InvalidIdx(file[s], Len(file[s])))

MaxStoredErrors == 10

\* C2: in every reachable state the stored error list has at most 10
\* messages, and they are the messages of the first failing lines in order.
C2_AtMostTenStoredErrors ==
    /\ Len(errors) <= MaxStoredErrors
    /\ \A s \in Streams : \A i \in 1..Len(errors) :
           /\ i <= Cardinality(InvalidIdx(file[s], Len(file[s])))
           /\ errors[i].line_num = Nth(InvalidIdx(file[s], Len(file[s])), i)

\* C3: a strict stream parse of a source with an invalid line ends at the
\* first invalid line with a ParseError, the consumer having received exactly
\* the entries of the valid lines before it; no later line is read.
C3_StrictAbortsWithParseError ==
    \A s \in Streams :
        (strict_mode /\ Ended(s) /\ InvalidIdx(file[s], Len(file[s])) # {}) =>
            LET k == Nth(InvalidIdx(file[s], Len(file[s])), 1)
            IN  /\ raised[s].kind = "ParseError"
                /\ pos[s] = k
                /\ Paths(received[s]) = ValidPaths(file[s], k - 1)

\* C4: in lenient mode, reading a malformed line of any kind records the
\* failure and the stream goes on with the next line: the step adds one to
\* error_count, stores one message, yields nothing and does not end the stream.
C4_LenientIsolatesFailures ==
    [][\A s \in Streams :
          (/\ ~strict_mode
           /\ pos'[s] = pos[s] + 1
           /\ InvalidLine(LineOf(file[s][pos'[s]]))) =>
              (/\ error_count' = error_count + 1
               /\ Len(errors') = Len(errors) + 1
               /\ received' = received
               /\ pc'[s] = "loop")]_vars

EntryValid(e) ==
    /\ DottedQuad(e.ip_address)
    /\ e.method \in {"GET", "POST", "PUT", "DELETE", "PATCH", "HEAD", "OPTIONS"}
    /\ e.status_code \in 100..599
    /\ e.response_size >= 0

\* C5: parse_line ends in one of two ways: it returns a valid, fully
\* populated entry, or it raises ParseError.
C5_EntryOrParseError ==
    line_out # Pending =>
        \/ line_out.kind = "entry" /\ EntryValid(line_out.entry[1])
        \/ line_out.kind = "ParseError"

\* the counters and stored errors are those of the lines of source f alone
OwnStats(f, pcount, ecount, errs) ==
    /\ pcount = Cardinality(ValidIdx(f, Len(f)))
    /\ ecount = Cardinality(InvalidIdx(f, Len(f)))
    /\ Len(errs) = ecount
    /\ \A i \in 1..Len(errs) : errs[i].line_num = Nth(InvalidIdx(f, Len(f)), i)

\* C6 as claimed: at the moment a stream parse finishes, the counters and the
\* stored errors are those of its own lines, whatever other calls on the same
\* instance were started, partially consumed or completed before or in between.
C6_NeverAccumulated ==
    [][\A s \in Streams :
          (pc[s] # "done" /\ pc'[s] = "done") =>
              OwnStats(file[s], parsed_count', error_count', errors')]_vars

\* C6 as amended: the same, provided no other call on the instance reset or
\* incremented the counters between this stream's reset and its end.
C6_NotAccumulatedUnlessInterleaved ==
    [][\A s \in Streams :
          (pc[s] # "done" /\ pc'[s] = "done" /\ ~interleaved'[s]) =>
              OwnStats(file[s], parsed_count', error_count', errors')]_vars

\* a stream finished undisturbed after another call was partially consumed
C6_Witness ==
    \E s \in Streams : \E t \in Streams \ {s} :
        /\ pc[s] = "done" /\ ~interleaved[s]
        /\ pc[t] = "suspended" /\ interleaved[t]
        /\ parsed_count >= 1 /\ error_count >= 1
        /\ OwnStats(file[s], parsed_count, error_count, errors)

Max(S) == CHOOSE k \in S : \A j \in S : j <= k

\* C7 as claimed: at every point where the consumer has control and holds a
\* received entry, parsed_count is the number of entries received and
\* error_count the number of failing lines before the last received entry.
C7_CountersAtEveryPoint ==
    \A s \in Streams :
        (running = 0 /\ received[s] # <<>>) =>
            /\ parsed_count = Len(received[s])
            /\ error_count =
                   Cardinality(InvalidIdx(file[s], Max(ValidIdx(file[s], pos[s]))))

\* C7 as amended: while the stream is suspended at a yield, and after the
\* consumer stopped there, the last line read is the line of the last
\* received entry, parsed_count is the number of entries received and
\* error_count the number of failing lines before that entry.
C7_CountersWhileSuspended ==
    \A s \in Streams :
        pc[s] \in {"suspended", "closed"} =>
            /\ ValidLine(LineOf(file[s][pos[s]]))
            /\ parsed_count = Len(received[s])
            /\ error_count = Cardinality(InvalidIdx(file[s], pos[s]))

\* the consumer stopped early, after a failing line and before the end
C7_Witness ==
    \E s \in Streams :
        pc[s] = "closed" /\ pos[s] < Len(file[s]) /\ error_count >= 1

\* C8: a call on a missing source ends with FileNotFoundError in both modes,
\* before anything is read or yielded, and leaves parsed_count, error_count
\* and errors as they were; such a call never reaches the parsing loop.
C8_MissingSourceRaisesFirst ==
    [][\A s \in Streams :
          ~exists[s] =>
              /\ pc[s] \in {"created", "entered", "FileNotFoundError"}
              /\ (pc[s] = "entered" /\ pc'[s] # "entered") =>
                     /\ pc'[s] = "FileNotFoundError"
                     /\ raised'[s].kind = "FileNotFoundError"
                     /\ pos'[s] = 0
                     /\ received'[s] = <<>>
                     /\ parsed_count' = parsed_count
                     /\ error_count' = error_count
                     /\ errors' = errors]_vars

\* FileNotFoundError after an earlier call left counts and a stored error
C8_Witness ==
    \E s \in Streams :
        /\ pc[s] = "FileNotFoundError"
        /\ parsed_count >= 1 /\ error_count >= 1 /\ errors # <<>>

\* C9: reading a blank line or a comment line changes nothing but the
\* position: nothing is yielded, the counters and errors stay, and the
\* stream stays in its loop (in strict mode too).
C9_BlankAndCommentSkipped ==
    [][\A s \in Streams :
          (pos'[s] = pos[s] + 1 /\ Ignorable(LineOf(file[s][pos'[s]]))) =>
              /\ parsed_count' = parsed_count
              /\ error_count' = error_count
              /\ errors' = errors
              /\ received' = received
              /\ raised' = raised
              /\ pc'[s] = "loop"]_vars

\* a strict stream yielded an entry right after an indented comment line
C9_Witness ==
    \E s \in Streams :
        /\ strict_mode /\ pc[s] = "suspended" /\ pos[s] >= 2
        /\ LineOf(file[s][pos[s] - 1]).kind = "comment"
        /\ error_count = 0

TsCalled == ts_out # TsError(<<>>)

MentionsOffset(msg) == Mentions(msg, "timezone") \/ Mentions(msg, "offset")

\* C10 as claimed: with a valid date-time and an offset token of a sign and
\* four digits, _parse_timestamp succeeds iff -43200 <= offset <= 50400, the
\* result then carries exactly that offset, and a failure mentions
\* 'timezone' or 'offset'.
C10_OffsetRangeIff ==
    (TsCalled /\ ts_in.dt_ok /\ IsSignedHHMM(ts_in.tz)) =>
        /\ ts_out.ok <=> OffsetInRange(ts_in.tz)
        /\ ts_out.ok => ts_out.aware /\ ts_out.offset = OffsetSeconds(ts_in.tz)
        /\ ~ts_out.ok => MentionsOffset(ts_out.msg)

\* C10 as amended: the same, where success also needs MM <= 59.
C10_OffsetRangeIffMinutes ==
    (TsCalled /\ ts_in.dt_ok /\ IsSignedHHMM(ts_in.tz)) =>
        /\ ts_out.ok <=> (/\ ToInt(SubSeq(ts_in.tz, 4, 5)) <= 59
                          /\ OffsetInRange(ts_in.tz))
        /\ ts_out.ok => ts_out.aware /\ ts_out.offset = OffsetSeconds(ts_in.tz)
        /\ ~ts_out.ok => MentionsOffset(ts_out.msg)

\* the upper boundary +1400 was accepted with offset 50400
C10_Witness ==
    /\ ts_in.tz = <<"+", "1", "4", "0", "0">>
    /\ ts_out.ok /\ ts_out.aware /\ ts_out.offset = 50400

\* an offset token that is present but is not a usable sign-HH-MM token
MalformedTz(tz) ==
    /\ tz # <<>>
    /\ ~IsSignedHHMM(tz) \/ ToInt(SubSeq(tz, 4, 5)) > 59

\* C11: a timestamp with a valid date-time and a malformed offset token is
\* rejected with a ParseError mentioning 'timezone' or 'offset'; it is never
\* accepted, neither as naive nor with an offset.
C11_MalformedOffsetRejected ==
    (TsCalled /\ ts_in.dt_ok /\ MalformedTz(ts_in.tz)) =>
        ~ts_out.ok /\ MentionsOffset(ts_out.msg)

\* the other fields of a line are those of an entry the parser accepts
OtherFieldsValid(l) ==
    GrammarValid([l EXCEPT !.ts = [dt_ok |-> TRUE, local |-> 0, tz |-> <<>>]])

C13_ConstructionValidates ==
    entry_out # Pending =>
        /\ (\/ ~DottedQuad(entry_in.ip_address)
            \/ entry_in.status_code \notin 100..599
            \/ entry_in.response_size < 0) =>
               entry_out.kind = "ValueError" /\ entry_out.entry = <<>>
        /\ entry_out.kind = "entry" =>
               /\ entry_out.entry[1].status_code \in 100..599
               /\ entry_out.entry[1].response_size >= 0

\* the keys '00:00' .. '23:00'
HourKeys ==
    {<<a, b, ":", "0", "0">> : a \in {"0", "1"}, b \in Digits}
        \cup {<<"2", b, ":", "0", "0">> : b \in {"0", "1", "2", "3"}}

\* h has exactly the 24 hour keys, all of them 0 when there is no entry
AllHours(h) ==
    /\ DOMAIN h = HourKeys
    /\ log_entries = <<>> => \A key \in HourKeys : h[key] = 0

\* C14: the hourly traffic returned by get_hourly_traffic_pattern, and the
\* hourly_traffic of the report returned by generate_report, have exactly
\* the 24 keys '00:00'..'23:00', every bucket 0 for an empty collection.
C14_HourlyTrafficHas24Keys ==
    /\ an_out.op = "get_hourly_traffic_pattern" => AllHours(an_out.value)
    /\ an_out.op = "generate_report" => AllHours(an_out.value.hourly_traffic)

Occurrences(vals, v) == Cardinality({i \in 1..Len(vals) : vals[i] = v})

FirstIndex(vals, v) ==
    CHOOSE i \in 1..Len(vals) : vals[i] = v /\ \A j \in 1..(i - 1) : vals[j] # v

\* u is ranked before v: more occurrences, or as many and an earlier first one
RankedBefore(vals, u, v) ==
    \/ Occurrences(vals, u) > Occurrences(vals, v)
    \/ /\ Occurrences(vals, u) = Occurrences(vals, v)
       /\ FirstIndex(vals, u) < FirstIndex(vals, v)

\* out is the top-n ranking of the values vals
TopNCorrect(vals, n, out) ==
    LET distinct == {vals[i] : i \in 1..Len(vals)}
        kept     == {out[i][1] : i \in 1..Len(out)}
    IN  /\ Len(out) <= n
        /\ Len(out) = n \/ Len(out) = Cardinality(distinct)
        /\ \A i \in 1..Len(out) :
               out[i][1] \in distinct /\ out[i][2] = Occurrences(vals, out[i][1])
        /\ \A i \in 1..Len(out) : \A j \in (i + 1)..Len(out) :
               RankedBefore(vals, out[i][1], out[j][1])
        /\ \A v \in distinct \ kept : \A i \in 1..Len(out) :
               Occurrences(vals, v) <= out[i][2]

\* the values that the ranking method op counts
RankedValues(op) ==
    CASE op = "get_top_endpoints"   -> Column(log_entries, "path")
      [] op = "get_top_ips"         -> Column(log_entries, "ip_address")
      [] op = "analyze_user_agents" -> TruthyTexts(Column(log_entries, "user_agent"))
      [] op = "analyze_referrers"   -> TruthyTexts(Column(log_entries, "referrer"))

IpsOf(entries) == {entries[i].ip_address : i \in 1..Len(entries)}

RequestsOf(ip) == Occurrences(Column(log_entries, "ip_address"), ip)

ErrorsOf(ip) ==
    Cardinality({i \in 1..Len(log_entries) :
                    log_entries[i].ip_address = ip /\ log_entries[i].status_code >= 400})

\* C16: an IP that issues 200 requests while every other IP issues at most
\* 20 (as the three IPs with 200, 20 and 1 requests of the test) is in
\* high_volume_ips.
C16_HighVolumeFlagged ==
    an_out.op = "detect_suspicious_activity" =>
        \A ip \in IpsOf(log_entries) :
            (/\ RequestsOf(ip) = 200
             /\ \A other \in IpsOf(log_entries) \ {ip} : RequestsOf(other) <= 20) =>
                ip \in DOMAIN an_out.value.high_volume_ips

\* C17: an IP is in high_error_ips iff it has more than 10 requests and more
\* than half of them have a status >= 400; the error_count and
\* total_requests reported for it are its exact counts.
C17_HighErrorIffOverHalf ==
    an_out.op = "detect_suspicious_activity" =>
        LET flagged == an_out.value.high_error_ips
        IN  /\ DOMAIN flagged \subseteq IpsOf(log_entries)
            /\ \A ip \in IpsOf(log_entries) :
                   /\ ip \in DOMAIN flagged <=>
                          (RequestsOf(ip) > 10 /\ 2 * ErrorsOf(ip) > RequestsOf(ip))
                   /\ ip \in DOMAIN flagged =>
                          /\ flagged[ip].error_count = ErrorsOf(ip)
                          /\ flagged[ip].total_requests = RequestsOf(ip)

\* 6 errors in 11 requests are flagged beside 6 errors in 12 that are not
C17_Witness ==
    /\ an_out.op = "detect_suspicious_activity"
    /\ \E ip \in IpsOf(log_entries) : \E other \in IpsOf(log_entries) :
           /\ ip \in DOMAIN an_out.value.high_error_ips
           /\ RequestsOf(ip) = 11 /\ ErrorsOf(ip) = 6
           /\ other \notin DOMAIN an_out.value.high_error_ips
           /\ RequestsOf(other) = 12 /\ ErrorsOf(other) = 6

\* C18: the trend analysis of a single entry returns exactly one window,
\* which starts at the entry and has request_count 1 and unique_ips 1; the
\* analysis of no entry returns the empty list.
C18_SingleEntryOneWindow ==
    tpc = "returned" =>
        /\ Len(log_entries) = 1 =>
               /\ Len(trends) = 1
               /\ trends[1].timestamp = log_entries[1].timestamp.local
               /\ trends[1].request_count = 1
               /\ trends[1].unique_ips = 1
        /\ log_entries = <<>> => trends = <<>>

\* the windows of the returned trends that contain the time t
WindowsHolding(t) ==
    {i \in 1..Len(trends) :
        trends[i].timestamp <= t /\ t < trends[i].timestamp + window_minutes}

RECURSIVE SumRequestCounts(_)
SumRequestCounts(points) ==
    IF points = <<>> THEN 0
    ELSE Head(points).request_count + SumRequestCounts(Tail(points))

\* C19: in the returned trends every input entry, the latest one and those
\* on a window boundary included, lies in exactly one emitted window, and the
\* request_count values sum to the number of input entries.
C19_WindowsCoverAllEntries ==
    tpc = "returned" =>
        /\ \A i \in 1..Len(log_entries) :
               Cardinality(WindowsHolding(log_entries[i].timestamp.local)) = 1
        /\ SumRequestCounts(trends) = Len(log_entries)

\* C20: the trends never hold a window with request_count 0; the windows are
\* in strictly ascending order of start, each start being the first entry's
\* timestamp plus a multiple k >= 0 of window_minutes.
C20_NoEmptyWindowAscending ==
    tpc \in {"loop", "returned"} =>
        /\ \A i \in 1..Len(trends) :
               /\ trends[i].request_count >= 1
               /\ trends[i].timestamp >= sorted_entries[1].timestamp.local
               /\ (trends[i].timestamp - sorted_entries[1].timestamp.local)
                      % window_minutes = 0
        /\ \A i \in 1..(Len(trends) - 1) :
               trends[i].timestamp < trends[i + 1].timestamp

\* two windows were returned with a window without requests between them
C20_Witness ==
    /\ tpc = "returned"
    /\ Len(trends) = 2
    /\ trends[2].timestamp - trends[1].timestamp > window_minutes

\* the rational zero, the value of 0.0
IsZeroRate(q) == q.num = 0 /\ q.den # 0

\* C21: for an empty list of entries generate_report returns total_requests
\* 0, unique_ips 0, error_rate 0.0, avg_response_size 0.0, empty
\* top_endpoints, top_ips, status_code_distribution and error_log, and
\* detect_suspicious_activity returns three empty mappings; the ranking
\* methods return empty mappings as well.
C21_EmptyInputZeroValues ==
    (log_entries = <<>> /\ an_out # NoResult) =>
        /\ an_out.op = "generate_report" =>
               /\ an_out.value.total_requests = 0
               /\ an_out.value.unique_ips = 0
               /\ IsZeroRate(an_out.value.error_rate)
               /\ IsZeroRate(an_out.value.avg_response_size)
               /\ an_out.value.top_endpoints = <<>>
               /\ an_out.value.top_ips = <<>>
               /\ an_out.value.status_code_distribution = <<>>
               /\ an_out.value.error_log = <<>>
        /\ an_out.op = "detect_suspicious_activity" =>
               /\ DOMAIN an_out.value.high_volume_ips = {}
               /\ DOMAIN an_out.value.high_error_ips = {}
               /\ an_out.value.potential_bots = <<>>
        /\ an_out.op \in {"get_top_endpoints", "get_top_ips",
                          "analyze_user_agents", "analyze_referrers"} =>
               an_out.value = <<>>

\* generate_report has returned for an empty list of entries
C21_Witness ==
    /\ log_entries = <<>>
    /\ an_out.op = "generate_report"
    /\ an_out.value.total_requests = 0

\* C22: the mapping returned by get_parsing_stats has success_rate equal to
\* parsed_count / (parsed_count + error_count), and 0 when both counters are
\* 0; its errors are the first min(10, len(errors)) messages of the parser,
\* in the order in which they were recorded.
C22_ParsingStats ==
    [][stats' # stats =>
          LET st == stats'[1]
          IN  /\ st.parsed_count = parsed_count
              /\ st.error_count = error_count
              /\ st.success_rate.den # 0
              /\ st.success_rate.num * (parsed_count + error_count)
                     = parsed_count * st.success_rate.den
              /\ (parsed_count + error_count = 0 => st.success_rate.num = 0)
              /\ Len(st.errors) <= 10
              /\ Len(st.errors) <= Len(errors)
              /\ (Len(st.errors) < Len(errors) => Len(st.errors) = 10)
              /\ \A i \in 1..Len(st.errors) : st.errors[i] = errors[i]]_vars

\* get_parsing_stats was called after more than 10 messages were recorded
\* and reported 10 of them
C22_Witness ==
    /\ stats # None
    /\ Len(errors) > 10
    /\ stats[1].error_count = Len(errors)
    /\ Len(stats[1].errors) = 10

\* the positions (1-indexed, every line counted) of the lines of the source
\* f for which parse_line raises ParseError
FailingPositions(f) ==
    {n \in 1..Len(f) : Outcome(Strip(LineOf(f[n]))).kind = "ParseError"}

\* the message 'Line <n>: <message>' names a failing line of f by its position
NamesFailingLine(f, m) ==
    /\ m.line_num \in FailingPositions(f)
    /\ m.text = Outcome(Strip(LineOf(f[m.line_num]))).msg

\* C23: during one parse every recorded message is 'Line <n>: <message>'
\* where n is the position of the failing line among all lines of the
\* source, skipped blank and comment lines included, and <message> is the
\* message of its ParseError; the messages are in source order; the
\* ParseError raised in strict mode carries the same n and message.
C23_ErrorsNameSourceLines ==
    /\ \A i \in 1..Len(errors) :
           /\ NamesFailingLine(file[1], errors[i])
           /\ Cardinality({n \in FailingPositions(file[1]) :
                               n <= errors[i].line_num}) = i
    /\ raised[1].kind = "ParseError" =>
           /\ strict_mode
           /\ NamesFailingLine(file[1], [line_num |-> raised[1].line_num,
                                         text |-> raised[1].msg])
           /\ errors = <<ErrorMsg(raised[1].line_num, raised[1].msg)>>

\* a failing line was recorded after a skipped blank or comment line
C23_Witness ==
    /\ Len(errors) >= 1
    /\ errors[1].line_num >= 2
    /\ file[1][1] \in {"blank", "comment"}

\* the positions in the input of the entries with start <= timestamp < start + width
InWindow(start, width) ==
    {k \in 1..Len(log_entries) :
        /\ start <= log_entries[k].timestamp.local
        /\ log_entries[k].timestamp.local < start + width}

\* the point p reports the input entries of its window
PointCorrect(p) ==
    LET members == InWindow(p.timestamp, window_minutes)
    IN  /\ p.request_count = Cardinality(members)
        /\ p.error_count
               = Cardinality({k \in members : log_entries[k].status_code >= 400})
        /\ p.unique_ips
               = Cardinality({log_entries[k].ip_address : k \in members})
        /\ p.error_rate.den # 0
        /\ p.error_rate.num * p.request_count
               = 100 * p.error_count * p.error_rate.den

\* minutes between the earliest and the latest entry
SpanMinutes ==
    sorted_entries[Len(sorted_entries)].timestamp.local
        - sorted_entries[1].timestamp.local

ErrorPositions == {k \in 1..Len(log_entries) : log_entries[k].status_code >= 400}

\* C25: the error_log of a report holds exactly the input entries with
\* status >= 400, in input order; error_rate * total_requests equals
\* 100 * len(error_log); the error_count of to_dict equals len(error_log).
C25_ErrorLogAndCount ==
    /\ [](an_out.op = "generate_report" =>
             /\ Len(an_out.value.error_log) = Cardinality(ErrorPositions)
             /\ \A k \in ErrorPositions :
                    an_out.value.error_log[Cardinality({j \in ErrorPositions : j <= k})]
                        = log_entries[k]
             /\ an_out.value.error_rate.den # 0
             /\ an_out.value.error_rate.num * an_out.value.total_requests
                    = 100 * Len(an_out.value.error_log) * an_out.value.error_rate.den)
    /\ [][an_out'.op = "to_dict" =>
              /\ an_out.op = "generate_report"
              /\ an_out'.value.error_count = Len(an_out.value.error_log)
              /\ an_out'.value.error_count = Cardinality(ErrorPositions)]_vars

\* a report with some but not all entries in its error_log was serialized
C25_Witness ==
    /\ an_out.op = "to_dict"
    /\ an_out.value.error_count >= 2
    /\ an_out.value.error_count < an_out.value.total_requests

Outcomes(f) == [n \in 1..Len(f) |-> Outcome(Strip(LineOf(f[n])))]

\* the lines of f up to the first one that raises an exception other than
\* ParseError, which ends the generator in either mode
UntilFatal(f) ==
    LET fatal == {n \in 1..Len(f) :
                     Outcomes(f)[n].kind \notin {"skip", "entry", "ParseError"}}
    IN  IF fatal = {} THEN f
        ELSE SubSeq(f, 1, (CHOOSE n \in fatal : \A k \in fatal : n <= k) - 1)

\* the entries of the parseable lines of f, in order, invalid lines left out
LenientEntries(f) ==
    LET found == SelectSeq(Outcomes(UntilFatal(f)), LAMBDA r : r.kind = "entry")
    IN  [i \in 1..Len(found) |-> found[i].entry[1]]

\* no line of f makes parse_line raise ParseError
NoInvalidLine(f) == \A n \in 1..Len(f) : Outcomes(f)[n].kind # "ParseError"

IsPrefix(a, b) == Len(a) <= Len(b) /\ a = SubSeq(b, 1, Len(a))

\* C27: the entries yielded in either mode are at every moment a prefix of
\* the entries of the parseable lines of the source, which is exactly what
\* lenient mode has yielded when it ends, so the strict sequence is a prefix
\* of the lenient one; for a source without invalid line both modes end with
\* that same sequence, parsed_count equal to its length, error_count 0 and
\* no error message.
C27_StrictIsPrefixOfLenient ==
    LET ref == LenientEntries(file[1])
    IN  /\ IsPrefix(received[1], ref)
        /\ (~strict_mode /\ Ended(1)) => received[1] = ref
        /\ (NoInvalidLine(file[1]) /\ Ended(1)) =>
               /\ received[1] = ref
               /\ parsed_count = Len(ref)
               /\ error_count = 0
               /\ errors = <<>>

\* strict mode stopped at an invalid line after an entry and before another
C27_Witness ==
    /\ strict_mode
    /\ raised[1].kind = "ParseError"
    /\ Len(received[1]) >= 1
    /\ Len(received[1]) < Len(LenientEntries(file[1]))

\* the lines read so far that are neither blank nor a comment
ProcessedLines ==
    {n \in 1..pos[1] : ~Skipped(Strip(LineOf(file[1][n])))}

\* C28: during one parse, in lenient mode parsed_count + error_count is the
\* number of non-blank, non-comment lines processed so far; neither counter
\* ever decreases; in strict mode error_count is at most 1.
C28_CountersMatchProcessedLines ==
    /\ [](~strict_mode =>
              parsed_count + error_count = Cardinality(ProcessedLines))
    /\ [](strict_mode => error_count <= 1)
    /\ [][parsed_count' >= parsed_count /\ error_count' >= error_count]_vars

\* the entries of the list whose timestamp lies in [start, start + width),
\* as positions
MembersOf(entries, start, width) ==
    {k \in 1..Len(entries) :
        /\ start <= entries[k].timestamp.local
        /\ entries[k].timestamp.local < start + width}

\* the trend determined by the entries as a multiset: the windows from the
\* earliest timestamp that start before the latest one and hold an entry
ExpectedTrends(entries, width) ==
    IF entries = <<>> THEN <<>>
    ELSE LET times  == {entries[k].timestamp.local : k \in 1..Len(entries)}
             first  == CHOOSE t \in times : \A u \in times : t <= u
             last   == CHOOSE t \in times : \A u \in times : u <= t
             starts == {t \in {first + k * width : k \in 0..((last - first) \div width)} :
                           t < last /\ MembersOf(entries, t, width) # {}}
             point(t) ==
                 LET members == MembersOf(entries, t, width)
                     errs == {k \in members : entries[k].status_code >= 400}
                 IN  [timestamp     |-> t,
                      request_count |-> Cardinality(members),
                      error_count   |-> Cardinality(errs),
                      error_rate    |-> [num |-> 100 * Cardinality(errs),
                                         den |-> Cardinality(members)],
                      unique_ips    |-> Cardinality({entries[k].ip_address :
                                                        k \in members})]
         IN  [i \in 1..Cardinality(starts) |-> point(Nth(starts, i))]

\* the orders of the same entries that are compared: every permutation of a
\* short list, the reversed list of a long one
Rearrangements(entries) ==
    IF Len(entries) <= MaxTrendEntries + 1
    THEN {[i \in 1..Len(entries) |-> entries[p[i]]] :
             p \in Permutations(1..Len(entries))}
    ELSE {entries, Reversed(entries)}

Iterations ==
    (current_time - sorted_entries[1].timestamp.local) \div window_minutes

\* ceil(a / b) for a >= 0, b >= 1
CeilDiv(a, b) == (a + b - 1) \div b

\* C30: with window_minutes >= 1 the call returns, after at most
\* ceil((last - first) / window) iterations, each of which moves the window
\* start forward; with window_minutes = 0 and entries of different
\* timestamps the window start stays where it is and the loop is not left.
C30_LoopTerminates ==
    /\ (tpc = "loop" /\ window_minutes >= 1) ~> (tpc = "returned")
    /\ []((tpc \in {"loop", "returned"} /\ window_minutes >= 1
               /\ sorted_entries # <<>>) =>
              Iterations <= CeilDiv(SpanMinutes, window_minutes))
    /\ [][(tpc = "loop" /\ tpc' = "loop" /\ window_minutes >= 1) =>
              current_time' > current_time]_vars
    /\ [][(tpc = "loop" /\ window_minutes = 0 /\ SpanMinutes > 0) =>
              (tpc' = "loop" /\ current_time' = current_time)]_vars

\* the call returned after exactly ceil((last - first) / window) iterations,
\* more than two of them
C30_Witness ==
    /\ tpc = "returned"
    /\ window_minutes >= 1
    /\ sorted_entries # <<>>
    /\ Iterations = CeilDiv(SpanMinutes, window_minutes)
    /\ Iterations > 2

====
